---- MODULE Spec2Model ----
(***************************************************************************)
(* restify-session: header based sessions kept in a key/value store.       *)
(*                                                                         *)
(* The model follows src/lib/restify-session.js.  JavaScript values are    *)
(* tagged records, JavaScript strings are sequences of one-character       *)
(* strings, and the store is a function from keys to records.  A store     *)
(* command issued by a request is executed when its reply is delivered;    *)
(* the public operations called by host code are issued, executed and      *)
(* answered in one step.                                                   *)
(***************************************************************************)
EXTENDS Integers, Sequences, FiniteSets, TLC

VARIABLES
    cfg,      \* session.config, fixed at construction
    lib,      \* behaviour of the helper library where the source leaves it open
    store,    \* the records of the key/value store, by key
    reqs,     \* the requests handed to sessionManager, by number
    hist      \* the last completed operation and the one before it

vars == <<cfg, lib, store, reqs, hist>>

(***************************************************************************)
(* Bounds of the model.                                                    *)
(***************************************************************************)
MaxTtl == 2          \* the configured ttl, in seconds (ticks)
MaxSidLength == 2    \* the configured sidLength
MaxRequests == 2     \* requests handed to sessionManager
MaxGens == 2         \* attempts of createSid followed for one request

\* The values a random byte takes in the model: both ends of 0..255.
Bytes == {0, 255}

(***************************************************************************)
(* JavaScript values.                                                      *)
(***************************************************************************)
Undefined == [t |-> "undefined"]
Null == [t |-> "null"]
Str(s) == [t |-> "string", s |-> s]
Num(n) == [t |-> "number", n |-> n]
Bool(b) == [t |-> "boolean", b |-> b]
Arr(a) == [t |-> "array", a |-> a]
\* an object: its members in insertion order, each [k |-> key, v |-> value]
Obj(m) == [t |-> "object", m |-> m]

\* an error message (kept whole, as one symbol)
Msg(text) == Str(<<text>>)

\* truthiness, as used by `if (err)` and `if (!err)`
Truthy(v) ==
    CASE v.t = "undefined" -> FALSE
      [] v.t = "null" -> FALSE
      [] v.t = "string" -> v.s # <<>>
      [] v.t = "number" -> v.n # 0
      [] v.t = "boolean" -> v.b
      [] OTHER -> TRUE

\* utils.isNull of object_utils: null and undefined are null; whether the
\* empty string is too is not decided by this repository (lib.emptyIsNull).
isNull(v) ==
    \/ v.t \in {"undefined", "null"}
    \/ (lib.emptyIsNull /\ v = Str(<<>>))

\* obj[key] = val: replaces the member in place or appends it; an
\* assignment to a property of a primitive is ignored (sloppy mode).
SetMember(obj, key, val) ==
    IF obj.t # "object" THEN obj
    ELSE IF \E i \in 1..Len(obj.m) : obj.m[i].k = key
         THEN Obj([i \in 1..Len(obj.m) |->
                      IF obj.m[i].k = key THEN [k |-> key, v |-> val]
                      ELSE obj.m[i]])
         ELSE Obj(Append(obj.m, [k |-> key, v |-> val]))

\* obj[key], undefined when there is no such member
GetMember(obj, key) ==
    IF obj.t = "object" /\ \E i \in 1..Len(obj.m) : obj.m[i].k = key
    THEN obj.m[CHOOSE i \in 1..Len(obj.m) : obj.m[i].k = key].v
    ELSE Undefined

(***************************************************************************)
(* JSON.stringify and JSON.parse, on the characters of the text, for       *)
(* objects whose members are strings or null (no character that needs an   *)
(* escape occurs in the model's strings).                                  *)
(***************************************************************************)
Quote == "\""

QuotedText(s) == <<Quote>> \o s \o <<Quote>>

ScalarText(v) ==
    CASE v.t = "string" -> QuotedText(v.s)
      [] v.t = "null" -> <<"n", "u", "l", "l">>
      [] OTHER -> <<>>

RECURSIVE MembersText(_, _)
\* the members from the i-th on; a member whose value is undefined is left out
MembersText(m, first) ==
    IF m = <<>> THEN <<>>
    ELSE IF Head(m).v.t = "undefined" THEN MembersText(Tail(m), first)
    ELSE (IF first THEN <<>> ELSE <<",">>)
         \o QuotedText(Head(m).k) \o <<":">> \o ScalarText(Head(m).v)
         \o MembersText(Tail(m), FALSE)

JSONstringify(v) ==
    IF v.t = "object" THEN <<"{">> \o MembersText(v.m, TRUE) \o <<"}">>
    ELSE ScalarText(v)

RECURSIVE ParseString(_, _, _)
\* the string literal whose first character (after the quote) is txt[i]
ParseString(txt, i, acc) ==
    IF txt[i] = Quote THEN [v |-> Str(acc), next |-> i + 1]
    ELSE ParseString(txt, i + 1, Append(acc, txt[i]))

ParseScalar(txt, i) ==
    IF txt[i] = Quote THEN ParseString(txt, i + 1, <<>>)
    ELSE [v |-> Null, next |-> i + 4]

RECURSIVE ParseMembers(_, _, _)
\* txt[i] is "}", or "," or the quote that opens a member's key
ParseMembers(txt, i, acc) ==
    IF txt[i] = "}" THEN [v |-> Obj(acc), next |-> i + 1]
    ELSE LET j == IF txt[i] = "," THEN i + 1 ELSE i
             key == ParseString(txt, j + 1, <<>>)
             val == ParseScalar(txt, key.next + 1)
         IN ParseMembers(txt, val.next,
                         SetMember(Obj(acc), key.v.s, val.v).m)

JSONparse(txt) ==
    IF txt[1] = "{" THEN ParseMembers(txt, 2, <<>>).v
    ELSE ParseScalar(txt, 1).v

(***************************************************************************)
(* The identifier generator: the part of createSid before the store call.  *)
(***************************************************************************)
\* var chars = '0123456789ABCDEFGHIJKLMNOPQRSTUVWXTZabcdefghiklmnopqrstuvwxyz'
chars == <<
    "0", "1", "2", "3", "4", "5", "6", "7", "8", "9", "A", "B", "C",
    "D", "E", "F", "G", "H", "I", "J", "K", "L", "M", "N", "O", "P",
    "Q", "R", "S", "T", "U", "V", "W", "X", "T", "Z", "a", "b", "c",
    "d", "e", "f", "g", "h", "i", "k", "l", "m", "n", "o", "p", "q",
    "r", "s", "t", "u", "v", "w", "x", "y", "z" >>

cLen == Len(chars)

\* the bytes rnd(codes) writes that the loop can read: codes has cLen
\* entries, of which the loop reads the first len
CodesRead(len) == IF len < cLen THEN len ELSE cLen

\* chars.substring(rNum, rNum + 1)
substring1(rNum) ==
    IF rNum >= 0 /\ rNum < cLen THEN <<chars[rNum + 1]>> ELSE <<>>

\* the symbol the loop appends for index i (from 0); codes[i] is undefined
\* beyond the buffer, rNum is then NaN and the substring is empty
symbol(codes, i) ==
    IF i + 1 <= Len(codes) THEN substring1((codes[i + 1] * cLen) \div 255)
    ELSE <<>>

RECURSIVE sidLoop(_, _, _, _)
\* for (i = 0; i < len; i++) { sid += ... }
sidLoop(codes, len, i, sid) ==
    IF i < len THEN sidLoop(codes, len, i + 1, sid \o symbol(codes, i))
    ELSE sid

generateSid(codes, len) == Str(sidLoop(codes, len, 0, <<>>))

(***************************************************************************)
(* The store client: one command, executed on the records st.              *)
(***************************************************************************)
Cmd(name, key, info, ttl) ==
    [name |-> name, key |-> key, info |-> info, ttl |-> ttl]

NoCmd == Cmd("none", <<>>, <<>>, 0)

\* a record: the text, whether it expires, the seconds left, and (counted
\* in expiring mode only, and capped above the ttl) the seconds since the
\* record was written or refreshed
Rec(info, expires, ttl) ==
    [info |-> info, expires |-> expires, ttl |-> ttl, age |-> 0]

Put(st, key, rec) ==
    [k \in DOMAIN st \cup {key} |-> IF k = key THEN rec ELSE st[k]]

Remove(st, keys) == [k \in DOMAIN st \ keys |-> st[k]]

RECURSIVE KeyList(_)
KeyList(S) ==
    IF S = {} THEN <<>>
    ELSE LET k == CHOOSE x \in S : TRUE IN <<Str(k)>> \o KeyList(S \ {k})

StoreError == Msg("store error")

\* the reply of the store to command c: [store, err, reply]
client(st, c, fail) ==
    IF fail THEN [store |-> st, err |-> StoreError, reply |-> Undefined]
    ELSE CASE c.name = "exists" ->
                [store |-> st, err |-> Null,
                 reply |-> Num(IF c.key \in DOMAIN st THEN 1 ELSE 0)]
           [] c.name = "get" ->
                [store |-> st, err |-> Null,
                 reply |-> IF c.key \in DOMAIN st THEN Str(st[c.key].info)
                           ELSE Null]
           [] c.name = "set" ->
                [store |-> Put(st, c.key, Rec(c.info, FALSE, 0)),
                 err |-> Null, reply |-> Msg("OK")]
           [] c.name = "setex" ->
                [store |-> Put(st, c.key, Rec(c.info, TRUE, c.ttl)),
                 err |-> Null, reply |-> Msg("OK")]
           [] c.name = "expire" ->
                IF c.key \in DOMAIN st
                THEN [store |-> Put(st, c.key,
                                    Rec(st[c.key].info, TRUE, c.ttl)),
                      err |-> Null, reply |-> Num(1)]
                ELSE [store |-> st, err |-> Null, reply |-> Num(0)]
           [] c.name = "del" ->
                [store |-> Remove(st, {c.key}), err |-> Null,
                 reply |-> Num(IF c.key \in DOMAIN st THEN 1 ELSE 0)]
           [] c.name = "flushall" ->
                [store |-> Remove(st, DOMAIN st), err |-> Null,
                 reply |-> Msg("OK")]
           [] c.name = "keys" ->
                [store |-> st, err |-> Null,
                 reply |-> Arr(KeyList(DOMAIN st))]

\* one second passes: the records that expire lose a second, and go at 0
Expire(st) ==
    LET gone == {k \in DOMAIN st : st[k].expires /\ st[k].ttl <= 1}
    IN [k \in DOMAIN st \ gone |->
           [st[k] EXCEPT !.ttl = IF st[k].expires THEN @ - 1 ELSE @,
                         !.age = IF cfg.persist \/ @ > cfg.ttl THEN @
                                 ELSE @ + 1]]

(***************************************************************************)
(* The public operations.  Each is the pair of what the call does before   *)
(* it returns (a callback made at once, or one store command issued) and   *)
(* of the callback it makes when the store replies.                        *)
(***************************************************************************)
Result(err, res) == [err |-> err, res |-> res]

NoResult == Result(Undefined, Undefined)

Now(err, res) == [cmd |-> NoCmd, cb |-> Result(err, res)]

Issue(c) == [cmd |-> c, cb |-> NoResult]

\* save as it would be if it never set an expiry
saveNeverExpires(sid, data) ==
    IF isNull(sid) THEN Now(Msg("no sid given"), Undefined)
    ELSE Issue(Cmd("set", sid.s, JSONstringify(data), 0))

\* save as it would be if it set an expiry in both modes
saveAlwaysExpires(sid, data) ==
    IF isNull(sid) THEN Now(Msg("no sid given"), Undefined)
    ELSE Issue(Cmd("setex", sid.s, JSONstringify(data), cfg.ttl))

\* session.save, up to the store call
save(sid, data) ==
    IF isNull(sid) THEN Now(Msg("no sid given"), Undefined)
    ELSE IF cfg.persist
         THEN Issue(Cmd("set", sid.s, JSONstringify(data), 0))
         ELSE Issue(Cmd("setex", sid.s, JSONstringify(data), cfg.ttl))

\* setCallback of session.save
setCallback(err, status) == Result(err, status)

\* session.load, up to the store call
load(sid) ==
    IF isNull(sid) THEN Now(Msg("no sid given"), Undefined)
    ELSE Issue(Cmd("get", sid.s, <<>>, 0))

\* the callback of load as it would be if it did not parse the text
loadCallbackRaw(err, info) ==
    Result(err, IF Truthy(err) \/ isNull(info) THEN Undefined ELSE info)

\* the callback session.load gives to client.get
loadCallback(err, info) ==
    Result(err, IF Truthy(err) THEN Undefined
                ELSE IF ~isNull(info) THEN JSONparse(info.s)
                ELSE Undefined)

\* refresh as it would be if it went to the store in persistent mode too
refreshAlwaysExpire(sid) ==
    IF isNull(sid) THEN Now(Msg("no sid given"), Bool(FALSE))
    ELSE Issue(Cmd("expire", sid.s, <<>>, cfg.ttl))

\* session.refresh, up to the store call
refresh(sid) ==
    IF isNull(sid) THEN Now(Msg("no sid given"), Bool(FALSE))
    ELSE IF cfg.persist THEN Now(Undefined, Bool(TRUE))
    ELSE Issue(Cmd("expire", sid.s, <<>>, cfg.ttl))

\* the callback session.refresh gives to client.expire
refreshCallback(err, status) == Result(err, Bool(status = Num(1)))

\* exists as it would be if it refused an absent sid as load does
existsRejectsAbsent(sid) ==
    IF isNull(sid) THEN Now(Msg("no sid given"), Bool(FALSE))
    ELSE Issue(Cmd("exists", sid.s, <<>>, 0))

\* session.exists, up to the store call
exists(sid) ==
    IF isNull(sid) THEN Now(Undefined, Bool(FALSE))
    ELSE Issue(Cmd("exists", sid.s, <<>>, 0))

\* the callback of exists as it would be if it took any reply for a yes
existsCallbackNoError(err, status) == Result(err, Bool(~Truthy(err)))

\* the callback session.exists gives to client.exists
existsCallback(err, status) == Result(err, Bool(status = Num(1)))

\* session.getAllKeys, up to the store call
getAllKeys ==
    IF ~cfg.debug
    THEN Now(Msg("unable to get all session identifiers when not in debug mode"),
             Undefined)
    ELSE Issue(Cmd("keys", <<"*">>, <<>>, 0))

\* the callback session.getAllKeys gives to client.keys
keysCallback(err, keys) == Result(err, keys)

\* session.destroy, up to the store call
destroy(sid) ==
    IF isNull(sid) THEN Now(Msg("no sid given"), Num(0))
    ELSE Issue(Cmd("del", sid.s, <<>>, 0))

\* the callback session.destroy gives to client.del: function(status),
\* which the client calls with (err, reply), so status is the error
delCallback(err, reply) == Result(Undefined, err)

\* destroyAll as it would be without the debug gate
destroyAllUngated == Issue(Cmd("flushall", <<>>, <<>>, 0))

\* session.destroyAll, up to the store call
destroyAll ==
    IF ~cfg.debug
    THEN Now(Msg("unable to destroy all sessions when not in debug mode"),
             Undefined)
    ELSE Issue(Cmd("flushall", <<>>, <<>>, 0))

\* the callback session.destroyAll gives to client.flushall: function(status)
flushallCallback(err, reply) == Result(Undefined, err)

\* the callback of the operation that issued command c
Callback(c, err, reply) ==
    CASE c.name \in {"set", "setex"} -> setCallback(err, reply)
      [] c.name = "get" -> loadCallback(err, reply)
      [] c.name = "expire" -> refreshCallback(err, reply)
      [] c.name = "exists" -> existsCallback(err, reply)
      [] c.name = "keys" -> keysCallback(err, reply)
      [] c.name = "del" -> delCallback(err, reply)
      [] c.name = "flushall" -> flushallCallback(err, reply)

(***************************************************************************)
(* The operations remembered in hist.                                      *)
(***************************************************************************)
\* a completed public operation: its name and arguments, what its callback
\* received, the store commands it issued and whether the store failed
Event(op, sid, data, out, cmds, failed, changed) ==
    [op |-> op, sid |-> sid, data |-> data, err |-> out.err, res |-> out.res,
     cmds |-> cmds, failed |-> failed, changed |-> changed]

\* anything else that happened: a second passed, a request advanced
Other == Event("other", Undefined, Undefined, NoResult, <<>>, FALSE, FALSE)

\* hist.last is the last thing that happened and hist.prev what happened
\* before it; what is not a public operation is one entry however long it
\* lasts
Push(h, e) ==
    IF e = Other /\ h.last = Other THEN h
    ELSE [prev |-> h.last, last |-> e]

\* host code calls a public operation: the call, the store's reply and the
\* callback in one step
Call(op, sid, data, call, fail) ==
    IF call.cmd = NoCmd
    THEN /\ ~fail
         /\ hist' = Push(hist, Event(op, sid, data, call.cb, <<>>, FALSE,
                                      FALSE))
         /\ UNCHANGED store
    ELSE LET r == client(store, call.cmd, fail)
         IN /\ store' = r.store
            /\ hist' = Push(hist, Event(op, sid, data,
                                        Callback(call.cmd, r.err, r.reply),
                                        <<call.cmd.name>>, fail,
                                        r.store # store))

(***************************************************************************)
(* A request in sessionManager.  pc is the store reply it waits for.       *)
(***************************************************************************)
NewReq ==
    [pc |-> "idle",          \* idle, exists, load, createSid, save, done
     reqSid |-> Undefined,   \* req.headers[sidHeader]
     sid |-> Undefined,      \* the sid being created or saved
     data |-> Undefined,     \* the data being saved
     cmd |-> NoCmd,          \* the store command awaiting its reply
     session |-> Undefined,  \* req.session
     header |-> Undefined,   \* the response header sidHeader
     nexts |-> 0,            \* calls of next()
     gens |-> 0,             \* calls of createSid
     cmds |-> <<>>,          \* the store commands issued, in order
     ops |-> <<>>,           \* the session operations called, in order
     failed |-> FALSE,       \* some store call of the request failed
     found |-> Undefined,    \* what load delivered
     alive |-> TRUE,         \* reqSid had a record whenever looked at
     dead |-> TRUE]          \* reqSid had no record whenever looked at

sidKey == <<"s", "i", "d">>

\* next()
next(q) == [q EXCEPT !.pc = "done", !.cmd = NoCmd, !.nexts = @ + 1]

\* the request has issued command c and waits for its reply at pc
await(q, pc, c) ==
    [q EXCEPT !.pc = pc, !.cmd = c, !.cmds = Append(@, c.name)]

\* the request calls session operation op
calls(q, op) == [q EXCEPT !.ops = Append(@, op)]

\* the callback of setSessionData as it would be if it did not test err
savedIgnoringError(q, out) ==
    next([q EXCEPT !.session = q.data, !.header = q.sid])

\* the callback setSessionData gives to session.save
saved(q, out) ==
    IF ~Truthy(out.err)
    THEN next([q EXCEPT !.session = q.data, !.header = q.sid])
    ELSE next(q)

\* setSessionData as it would be without the return that follows next()
setSessionDataNoReturn(q, sid, data) ==
    LET d == SetMember(IF isNull(data) THEN Obj(<<>>) ELSE data,
                       sidKey, sid)
        p == IF isNull(sid) THEN next(q) ELSE q
        w == calls([p EXCEPT !.sid = sid, !.data = d], "save")
        call == save(sid, d)
    IN IF call.cmd = NoCmd THEN saved(w, call.cb)
       ELSE await(w, "save", call.cmd)

\* session.setSessionData
setSessionData(q, sid, data) ==
    IF isNull(sid) THEN next(q)
    ELSE LET d == SetMember(IF isNull(data) THEN Obj(<<>>) ELSE data,
                            sidKey, sid)
             w == calls([q EXCEPT !.sid = sid, !.data = d], "save")
             call == save(sid, d)
         IN IF call.cmd = NoCmd THEN saved(w, call.cb)
            ELSE await(w, "save", call.cmd)

\* createSid as it would be if it did not ask the store about the new sid
createSidUnchecked(q, codes) ==
    LET sid == generateSid(codes, cfg.sidLength)
    IN setSessionData(calls([q EXCEPT !.sid = sid, !.gens = @ + 1],
                            "createSid"),
                      sid, Obj(<<>>))

\* session.createSid, up to the store call, with the random bytes codes
createSid(q, codes) ==
    LET sid == generateSid(codes, cfg.sidLength)
    IN await(calls([q EXCEPT !.sid = sid, !.gens = @ + 1], "createSid"),
             "createSid", Cmd("exists", sid.s, <<>>, 0))

\* the callback of createSid as it would be if it tried again on an error
createSidReplyRetryOnError(q, err, reply, codes) ==
    IF reply = Num(1) \/ Truthy(err) THEN createSid(q, codes)
    ELSE setSessionData(q, q.sid, Obj(<<>>))

\* the callback createSid gives to client.exists; codes are the random
\* bytes of the next attempt
createSidReply(q, err, reply, codes) ==
    IF reply = Num(1) THEN createSid(q, codes)
    ELSE IF ~Truthy(err) THEN setSessionData(q, q.sid, Obj(<<>>))
    ELSE next(q)

\* the callback sessionManager gives to session.load
loaded(q, out) ==
    IF ~Truthy(out.err)
    THEN setSessionData([q EXCEPT !.found = out.res], q.reqSid, out.res)
    ELSE next(q)

\* the callback of sessionManager as it would be if it never reused a sid
existsDoneNoReuse(q, out, codes) ==
    IF Truthy(out.err) THEN next(q) ELSE createSid(q, codes)

\* the callback sessionManager gives to session.exists
existsDone(q, out, codes) ==
    IF Truthy(out.err) THEN next(q)
    ELSE IF Truthy(out.res)
         THEN LET call == load(q.reqSid)
                  w == calls(q, "load")
              IN IF call.cmd = NoCmd THEN loaded(w, call.cb)
                 ELSE await(w, "load", call.cmd)
         ELSE createSid(q, codes)

\* session.sessionManager for a request with header value h
sessionManager(q, h, codes) ==
    LET w == calls([q EXCEPT !.reqSid = h], "exists")
        call == exists(h)
    IN IF call.cmd = NoCmd THEN existsDone(w, call.cb, codes)
       ELSE await(w, "exists", call.cmd)

(***************************************************************************)
(* Inputs.                                                                 *)
(***************************************************************************)
Requests == 1..MaxRequests

\* sid has a record in the store
HasRecord(sid) == sid.t = "string" /\ sid.s \in DOMAIN store

\* the request looks at the store: on arrival, and when the store replies
Observed(q) ==
    [q EXCEPT !.alive = @ /\ HasRecord(q.reqSid),
              !.dead = @ /\ ~HasRecord(q.reqSid)]

\* the store replies to the request, failing or not
Replied(q, fail) == [Observed(q) EXCEPT !.failed = @ \/ fail]

\* the bytes createSid reads
Codes == [1..CodesRead(cfg.sidLength) -> Bytes]

\* the bytes drawn in a step: none are drawn when createSid is not called
CodesWhen(called) ==
    IF called THEN Codes ELSE {[i \in 1..CodesRead(cfg.sidLength) |-> 0]}

\* a sid made up by a client, in the form the generator gives its sids
FakeSid == Str([i \in 1..MaxSidLength |-> "0"])

\* the sids a client or host code can name: none, a made-up one, the ones
\* sent in a response header, the keys of the store
Issued == {reqs[r].header : r \in Requests} \ {Undefined}

SidInputs == {Undefined, FakeSid} \cup Issued \cup {Str(k) : k \in DOMAIN store}

\* data with a sid of its own and a null member
HostData ==
    Obj(<< [k |-> sidKey, v |-> Str(<<"f">>)], [k |-> <<"n">>, v |-> Null] >>)

DataInputs == { Obj(<< [k |-> <<"k">>, v |-> Str(<<"v">>)] >>), HostData }

\* host code can also save under a sid of its own
ApiSidInputs == SidInputs \cup {Str(<<"f">>)}

(***************************************************************************)
(* The specification.                                                      *)
(***************************************************************************)
Init ==
    /\ cfg \in [ttl : {MaxTtl}, debug : BOOLEAN, persist : BOOLEAN,
                sidLength : {MaxSidLength}]
    /\ lib \in [emptyIsNull : BOOLEAN]
    /\ store = [k \in {} |-> Rec(<<>>, FALSE, 0)]
    /\ reqs = [r \in Requests |-> NewReq]
    /\ hist = [prev |-> Other, last |-> Other]

\* a request arrives
Start(r) ==
    /\ reqs[r].pc = "idle"
    /\ \A p \in Requests : p < r => reqs[p].pc # "idle"
    /\ \E h \in SidInputs :
          \E codes \in CodesWhen(isNull(h)) :
             reqs' = [reqs EXCEPT ![r] =
                 sessionManager(Observed([@ EXCEPT !.reqSid = h]), h, codes)]
    /\ hist' = Push(hist, Other)
    /\ UNCHANGED <<cfg, lib, store>>

\* the store replies to the request's session.exists
ExistsReply(r) ==
    /\ reqs[r].pc = "exists"
    /\ \E fail \in BOOLEAN :
          LET q == reqs[r]
              a == client(store, q.cmd, fail)
          IN /\ store' = a.store
             /\ \E codes \in CodesWhen(a.reply = Num(0)) :
                   reqs' = [reqs EXCEPT ![r] =
                       existsDone(Replied(q, fail),
                                  existsCallback(a.err, a.reply), codes)]
    /\ hist' = Push(hist, Other)
    /\ UNCHANGED <<cfg, lib>>

\* the store replies to the request's session.load, failing or not
LoadReplied(r, fail) ==
    /\ reqs[r].pc = "load"
    /\ LET q == reqs[r]
           a == client(store, q.cmd, fail)
       IN /\ store' = a.store
          /\ reqs' = [reqs EXCEPT ![r] =
                 loaded(Replied(q, fail),
                        loadCallback(a.err, a.reply))]
    /\ hist' = Push(hist, Other)
    /\ UNCHANGED <<cfg, lib>>

\* the store replies to the request's session.load
LoadReply(r) == \E fail \in BOOLEAN : LoadReplied(r, fail)

\* the store replies to createSid's client.exists
CreateSidReply(r) ==
    /\ reqs[r].pc = "createSid"
    /\ \E fail \in BOOLEAN :
          LET q == reqs[r]
              a == client(store, q.cmd, fail)
          IN /\ a.reply = Num(1) => q.gens < MaxGens
             /\ store' = a.store
             /\ \E codes \in CodesWhen(a.reply = Num(1)) :
                   reqs' = [reqs EXCEPT ![r] =
                       createSidReply(Replied(q, fail),
                                      a.err, a.reply, codes)]
    /\ hist' = Push(hist, Other)
    /\ UNCHANGED <<cfg, lib>>

\* the store replies to setSessionData's session.save
SaveReply(r) ==
    /\ reqs[r].pc = "save"
    /\ \E fail \in BOOLEAN :
          LET q == reqs[r]
              a == client(store, q.cmd, fail)
          IN /\ store' = a.store
             /\ reqs' = [reqs EXCEPT ![r] =
                    saved(Replied(q, fail),
                          setCallback(a.err, a.reply))]
    /\ hist' = Push(hist, Other)
    /\ UNCHANGED <<cfg, lib>>

\* a second passes
Tick ==
    /\ store' = Expire(store)
    /\ hist' = Push(hist, Other)
    /\ UNCHANGED <<cfg, lib, reqs>>

\* host code calls the public operations
Save ==
    /\ \E sid \in ApiSidInputs, data \in DataInputs, fail \in BOOLEAN :
          Call("save", sid, data, save(sid, data), fail)
    /\ UNCHANGED <<cfg, lib, reqs>>

Load ==
    /\ \E sid \in ApiSidInputs, fail \in BOOLEAN :
          Call("load", sid, Undefined, load(sid), fail)
    /\ UNCHANGED <<cfg, lib, reqs>>

Refresh ==
    /\ \E sid \in ApiSidInputs, fail \in BOOLEAN :
          Call("refresh", sid, Undefined, refresh(sid), fail)
    /\ UNCHANGED <<cfg, lib, reqs>>

Exists ==
    /\ \E sid \in ApiSidInputs, fail \in BOOLEAN :
          Call("exists", sid, Undefined, exists(sid), fail)
    /\ UNCHANGED <<cfg, lib, reqs>>

GetAllKeys ==
    /\ \E fail \in BOOLEAN :
          Call("getAllKeys", Undefined, Undefined, getAllKeys, fail)
    /\ UNCHANGED <<cfg, lib, reqs>>

Destroy ==
    /\ \E sid \in ApiSidInputs, fail \in BOOLEAN :
          Call("destroy", sid, Undefined, destroy(sid), fail)
    /\ UNCHANGED <<cfg, lib, reqs>>

DestroyAll ==
    /\ \E fail \in BOOLEAN :
          Call("destroyAll", Undefined, Undefined, destroyAll, fail)
    /\ UNCHANGED <<cfg, lib, reqs>>

\* host code calls an operation that changes the store while requests
\* are served; what it is told is not looked at, and a call the store
\* fails changes nothing
Unobserved(call) ==
    /\ call.cmd # NoCmd
    /\ store' = client(store, call.cmd, FALSE).store
    /\ hist' = Push(hist, Other)
    /\ UNCHANGED <<cfg, lib, reqs>>

HostSave == \E sid \in SidInputs : Unobserved(save(sid, HostData))

HostRefresh == \E sid \in SidInputs : Unobserved(refresh(sid))

HostDestroy == \E sid \in SidInputs : Unobserved(destroy(sid))

HostDestroyAll == Unobserved(destroyAll)

\* the requests, the clock and host code beside them
Next ==
    \/ \E r \in Requests : Start(r)
    \/ \E r \in Requests : ExistsReply(r)
    \/ \E r \in Requests : LoadReply(r)
    \/ \E r \in Requests : CreateSidReply(r)
    \/ \E r \in Requests : SaveReply(r)
    \/ Tick
    \/ HostSave
    \/ HostRefresh
    \/ HostDestroy
    \/ HostDestroyAll

Spec == Init /\ [][Next]_vars

\* the store answers createSid, beyond the attempts that are counted, that
\* the sid exists: createSid makes another sid and asks again (the request
\* keeps the counts it has)
CreateSidRetry(r) ==
    /\ reqs[r].pc = "createSid"
    /\ reqs[r].gens >= MaxGens
    /\ client(store, reqs[r].cmd, FALSE).reply = Num(1)
    /\ \E codes \in Codes :
          LET sid == generateSid(codes, cfg.sidLength)
          IN reqs' = [reqs EXCEPT ![r] =
                 [Observed(@) EXCEPT !.sid = sid,
                                     !.cmd = Cmd("exists", sid.s, <<>>, 0)]]
    /\ hist' = Push(hist, Other)
    /\ UNCHANGED <<cfg, lib, store>>

\* the store answers the call request r waits for
Reply(r) ==
    \/ ExistsReply(r)
    \/ LoadReply(r)
    \/ CreateSidReply(r)
    \/ CreateSidRetry(r)
    \/ SaveReply(r)

\* the requests with every attempt of createSid followed
NextLive ==
    \/ \E r \in Requests : Start(r)
    \/ \E r \in Requests : Reply(r)
    \/ Tick
    \/ HostSave
    \/ HostRefresh
    \/ HostDestroy
    \/ HostDestroyAll

\* every store call is answered in the end (the failing answer to a load,
\* one of the answers of Reply(r), is named first)
SpecLive ==
    /\ Init
    /\ [][NextLive]_vars
    /\ \A r \in Requests : WF_vars(LoadReplied(r, TRUE) \/ Reply(r))

\* the public operations called one after the other, and the clock
NextApi ==
    \/ Tick
    \/ Save
    \/ Load
    \/ Refresh
    \/ Exists
    \/ GetAllKeys
    \/ Destroy
    \/ DestroyAll

\* no operation of NextApi is given an empty string, so that the choice of
\* lib.emptyIsNull changes nothing there
InitApi == Init /\ ~lib.emptyIsNull

SpecApi == InitApi /\ [][NextApi]_vars

(***************************************************************************)
(* Properties.                                                             *)
(***************************************************************************)
\* request r has run to its end with every store call answered
Served(q) == q.pc = "done" /\ ~q.failed

NonEmptySid(v) == v.t = "string" /\ v.s # <<>>

\* C1: a request without a session header whose store calls all succeed
\* ends with the response header set to a non-empty sid, req.session.sid
\* equal to the header, and, as it ends, a record in the store under that sid.
C1_NoHeaderGetsSession ==
    [][\A r \in Requests :
          (reqs[r].pc # "done" /\ Served(reqs'[r])
             /\ reqs'[r].reqSid = Undefined)
          => /\ NonEmptySid(reqs'[r].header)
             /\ GetMember(reqs'[r].session, sidKey) = reqs'[r].header
             /\ reqs'[r].header.s \in DOMAIN store']_vars

\* C2: a request that presents a sid with a live record (at its arrival and
\* at each of its store calls), and whose store calls all succeed, gets the
\* same sid in the response header, gets as req.session the data stored
\* under the sid with sid set to it, and never calls createSid.
C2_LiveSidReused ==
    \A r \in Requests :
       (Served(reqs[r]) /\ reqs[r].reqSid # Undefined /\ reqs[r].alive)
       => /\ reqs[r].header = reqs[r].reqSid
          /\ reqs[r].found # Undefined
          /\ reqs[r].session = SetMember(reqs[r].found, sidKey, reqs[r].reqSid)
          /\ GetMember(reqs[r].session, sidKey) = reqs[r].reqSid
          /\ reqs[r].gens = 0

C2_Witness ==
    \E r \in Requests :
       /\ Served(reqs[r]) /\ reqs[r].reqSid # Undefined /\ reqs[r].alive
       /\ reqs[r].header = reqs[r].reqSid
       /\ \E p \in Requests : p < r /\ reqs[p].header = reqs[r].reqSid

\* C3: a request that presents a sid without a record (none at its arrival
\* nor at any of its store calls), and whose store calls all succeed, is
\* given a new session whose sid differs from the presented one, and that
\* sid is in the response header.
C3_UnknownSidReplaced ==
    \A r \in Requests :
       (Served(reqs[r]) /\ reqs[r].reqSid # Undefined /\ reqs[r].dead)
       => /\ reqs[r].header.t = "string"
          /\ reqs[r].header # reqs[r].reqSid
          /\ GetMember(reqs[r].session, sidKey) = reqs[r].header

\* C4: in expiring mode no record outlives the ttl it was saved with: a
\* record that was not written or refreshed for ttl seconds is gone.
C4_RecordExpires ==
    ~cfg.persist => \A k \in DOMAIN store : store[k].age < cfg.ttl

\* a saved record has gone by the passage of time alone
C4_Witness ==
    /\ ~cfg.persist
    /\ hist.prev.op = "save" /\ ~Truthy(hist.prev.err) /\ NonEmptySid(hist.prev.sid)
    /\ hist.last = Other
    /\ hist.prev.sid.s \notin DOMAIN store

\* a successful save(sid, data) with a non-empty sid, and right after it
\* operation op on the same sid, answered by the store
SaveThen(op) ==
    /\ hist.prev.op = "save" /\ ~Truthy(hist.prev.err) /\ NonEmptySid(hist.prev.sid)
    /\ hist.last.op = op /\ hist.last.sid = hist.prev.sid /\ ~hist.last.failed

\* C5: in both modes, load(sid) right after a successful save(sid, data)
\* reports no error and delivers data equal to the data saved.
C5_SaveLoadRoundTrip ==
    SaveThen("load") => ~Truthy(hist.last.err) /\ hist.last.res = hist.prev.data

C5_Witness ==
    SaveThen("load") /\ hist.prev.data = HostData /\ hist.last.res = HostData

\* destroy(sid) answered by the store, and right after it exists(sid),
\* answered by the store
DestroyThenExists ==
    /\ hist.prev.op = "destroy" /\ NonEmptySid(hist.prev.sid) /\ ~hist.prev.failed
    /\ hist.last.op = "exists" /\ hist.last.sid = hist.prev.sid /\ ~hist.last.failed

\* C6: exists(sid) reports true right after a successful save(sid, data)
\* and false right after destroy(sid).
C6_ExistsAfterSaveAndDestroy ==
    /\ SaveThen("exists") =>
          ~Truthy(hist.last.err) /\ hist.last.res = Bool(TRUE)
    /\ DestroyThenExists =>
          ~Truthy(hist.last.err) /\ hist.last.res = Bool(FALSE)

\* a record was destroyed and exists says so
C6_Witness == DestroyThenExists /\ hist.prev.changed /\ hist.last.res = Bool(FALSE)

Refused(e) == Truthy(e.err) /\ e.cmds = <<>> /\ ~e.changed

\* C7: with debug off, destroyAll and getAllKeys call back with their
\* not-permitted error, issue no store command and leave the store as it
\* is; with debug on, destroyAll (answered by the store) leaves no key, and
\* a getAllKeys right after it delivers the empty list.
C7_DebugOnlyOperations ==
    /\ \A e \in {hist.prev, hist.last} :
          /\ (~cfg.debug /\ e.op = "destroyAll") =>
                /\ Refused(e)
                /\ e.err =
                      Msg("unable to destroy all sessions when not in debug mode")
          /\ (~cfg.debug /\ e.op = "getAllKeys") =>
                /\ Refused(e)
                /\ e.err =
                      Msg("unable to get all session identifiers when not in debug mode")
    /\ (cfg.debug /\ hist.last.op = "destroyAll" /\ ~hist.last.failed) =>
          DOMAIN store = {}
    /\ (/\ cfg.debug /\ hist.prev.op = "destroyAll" /\ ~hist.prev.failed
        /\ hist.last.op = "getAllKeys" /\ ~hist.last.failed) =>
          ~Truthy(hist.last.err) /\ hist.last.res = Arr(<<>>)

\* destroyAll emptied a store that had records, and getAllKeys lists none
C7_Witness ==
    /\ cfg.debug
    /\ hist.prev.op = "destroyAll" /\ hist.prev.changed
    /\ hist.last.op = "getAllKeys" /\ hist.last.res = Arr(<<>>)

Absent(sid) == sid \in {Undefined, Null}

\* C8: with an absent sid, load, save and destroy call back with the error
\* 'no sid given', and exists with exists = false and no error; none of
\* them issues a store command or changes the store.
C8_AbsentSid ==
    \A e \in {hist.prev, hist.last} :
       /\ (e.op \in {"load", "save", "destroy"} /\ Absent(e.sid)) =>
             Refused(e) /\ e.err = Msg("no sid given")
       /\ (e.op = "exists" /\ Absent(e.sid)) =>
             /\ ~Truthy(e.err) /\ e.res = Bool(FALSE)
             /\ e.cmds = <<>> /\ ~e.changed

\* with records in the store, save and then exists were called without a sid
C8_Witness ==
    /\ DOMAIN store # {}
    /\ hist.prev.op = "save" /\ Absent(hist.prev.sid) /\ Truthy(hist.prev.err)
    /\ hist.last.op = "exists" /\ Absent(hist.last.sid)
    /\ hist.last.res = Bool(FALSE)

Active(e) == ~Truthy(e.err) /\ e.res = Bool(TRUE) /\ e.cmds = <<>>

\* C9, as claimed: in persistent mode refresh(sid) reports active = true
\* with no error and without a store command for every sid, absent or not.
C9_RefreshAlwaysActive ==
    \A e \in {hist.prev, hist.last} :
       (cfg.persist /\ e.op = "refresh") => Active(e)

\* C9, amended: in persistent mode refresh(sid) reports active = true with
\* no error and without a store command for every sid that is given, with
\* a record or without; for an absent sid it calls back with 'no sid given'
\* and active = false, also without a store command.
C9_RefreshActiveForGivenSid ==
    \A e \in {hist.prev, hist.last} :
       (cfg.persist /\ e.op = "refresh") =>
          /\ ~e.changed /\ e.cmds = <<>>
          /\ ~Absent(e.sid) => Active(e)
          /\ Absent(e.sid) =>
                e.err = Msg("no sid given") /\ e.res = Bool(FALSE)

\* refresh of a sid without a record, in persistent mode
C9_Witness ==
    /\ cfg.persist
    /\ LET e == hist.last
       IN /\ e.op = "refresh" /\ NonEmptySid(e.sid)
          /\ e.sid.s \notin DOMAIN store
          /\ Active(e)

\* C10: in persistent mode no record of the store expires, and a record
\* goes only by destroy or destroyAll: not with time, not by a request.
C10_PersistentNeverExpires ==
    [][cfg.persist =>
          /\ \A k \in DOMAIN store' : ~store'[k].expires
          /\ \A k \in DOMAIN store :
                k \notin DOMAIN store' => (HostDestroy \/ HostDestroyAll)]_vars

\* a session made by one request and used again by a later one is there
C10_Witness ==
    /\ cfg.persist
    /\ \E p, r \in Requests :
          /\ p < r /\ Served(reqs[p]) /\ Served(reqs[r])
          /\ NonEmptySid(reqs[p].header)
          /\ reqs[r].reqSid = reqs[p].header
          /\ reqs[r].header = reqs[p].header
          /\ reqs[p].header.s \in DOMAIN store
          /\ ~store[reqs[p].header.s].expires

\* C11: every request that completes has called next() exactly once, on
\* each path (no header, a live sid, an unknown sid, a store call that
\* fails): next() is never called twice, a request has completed exactly
\* when it has called next(), and from then on it has no store command
\* pending and nothing of the request or of the response changes.
C11_NextExactlyOnce ==
    [][\A r \in Requests :
          /\ reqs'[r].nexts <= 1
          /\ (reqs'[r].pc = "done") <=> (reqs'[r].nexts = 1)
          /\ reqs'[r].pc = "done" => reqs'[r].cmd = NoCmd
          /\ reqs[r].pc = "done" => reqs'[r] = reqs[r]]_vars

\* one request ended at a failed store call and another with its session,
\* each with one call of next()
C11_Witness ==
    \E p, r \in Requests :
       /\ reqs[p].pc = "done" /\ reqs[p].failed /\ reqs[p].nexts = 1
       /\ reqs[r].pc = "done" /\ reqs[r].header # Undefined
       /\ reqs[r].nexts = 1

Last(seq) == seq[Len(seq)]

\* C12: a request one of whose store calls failed (the existence check of
\* the header value, the load, the generator's existence check or the save)
\* completes with no req.session and no response header; req.session and
\* the header are set together or not at all, and only when the save of the
\* request, its last store call, has succeeded.
C12_FailOpen ==
    \A r \in Requests :
       LET q == reqs[r]
       IN /\ q.failed =>
                /\ q.pc = "done"
                /\ q.session = Undefined /\ q.header = Undefined
          /\ (q.session = Undefined) <=> (q.header = Undefined)
          /\ q.header # Undefined =>
                /\ q.pc = "done" /\ ~q.failed
                /\ q.cmds # <<>> /\ Last(q.cmds) \in {"set", "setex"}
                /\ q.header = q.sid /\ q.session = q.data

\* the save of a request failed and the request went on without a session
C12_Witness ==
    \E r \in Requests :
       /\ reqs[r].pc = "done" /\ reqs[r].failed
       /\ reqs[r].cmds # <<>> /\ Last(reqs[r].cmds) \in {"set", "setex"}
       /\ reqs[r].session = Undefined /\ reqs[r].header = Undefined

\* C13: an operation whose store call failed (save, load, refresh, exists,
\* destroy, destroyAll, getAllKeys) gives its callback a non-empty error.
C13_FailureReported ==
    \A e \in {hist.prev, hist.last} : e.failed => Truthy(e.err)

\* the symbols of the alphabet
Alphabet == {chars[i] : i \in 1..cLen}

\* createSid has delivered the sid of request q to its callback
Delivered(q) == q.gens > 0 /\ q.pc \in {"save", "done"}

\* C14: every sid createSid delivers has exactly sidLength symbols, each of
\* them a symbol of the alphabet.
C14_SidWellFormed ==
    \A r \in Requests :
       Delivered(reqs[r]) =>
          /\ Len(reqs[r].sid.s) = cfg.sidLength
          /\ \A i \in 1..Len(reqs[r].sid.s) : reqs[r].sid.s[i] \in Alphabet

\* C15: a sid that createSid has just made is saved only where the store
\* has no live record: the save of a request that made its sid never
\* replaces the record of the session another request made under the same
\* sid and was given.
C15_FreshSidUnique ==
    [][\A r, p \in Requests :
          (/\ p # r
           /\ reqs[r].pc = "save" /\ reqs[r].gens > 0
           /\ reqs'[r].header = reqs[r].sid
           /\ reqs[p].gens > 0 /\ reqs[p].header = reqs[r].sid)
          => ~(/\ reqs[r].sid.s \in DOMAIN store
               /\ store[reqs[r].sid.s].info = JSONstringify(reqs[p].session))]_vars

\* C16: in expiring mode, when a request that presented a sid completes
\* with that session attached, the record of the sid expires and has the
\* whole configured ttl left.
C16_ReuseResetsTtl ==
    [][\A r \in Requests :
          (/\ ~cfg.persist
           /\ reqs[r].pc = "save" /\ reqs[r].gens = 0
           /\ reqs'[r].header = reqs[r].reqSid)
          => /\ reqs[r].reqSid.s \in DOMAIN store'
             /\ store'[reqs[r].reqSid.s].expires
             /\ store'[reqs[r].reqSid.s].ttl = cfg.ttl
             /\ store'[reqs[r].reqSid.s].age = 0]_vars

\* the session one request made was presented by a later one, and its
\* record has the whole ttl left
C16_Witness ==
    /\ ~cfg.persist
    /\ \E p, r \in Requests :
          /\ p < r /\ Served(reqs[p]) /\ Served(reqs[r])
          /\ NonEmptySid(reqs[p].header)
          /\ reqs[r].reqSid = reqs[p].header /\ reqs[r].gens = 0
          /\ reqs[r].header = reqs[p].header
          /\ reqs[p].header.s \in DOMAIN store
          /\ store[reqs[p].header.s].ttl = cfg.ttl

Repeat(x, n) == [i \in 1..n |-> x]

\* the session operations a request may have called so far: exists, then
\* load or the calls of createSid, then save
OpsInOrder(q) ==
    IF q.gens = 0
    THEN q.ops \in {<<"exists">>, <<"exists", "load">>,
                    <<"exists", "load", "save">>}
    ELSE \E tail \in {<<>>, <<"save">>} :
            q.ops = <<"exists">> \o Repeat("createSid", q.gens) \o tail

\* the store command of a session operation
CmdOf(op) ==
    CASE op = "exists" -> "exists"
      [] op = "load" -> "get"
      [] op = "createSid" -> "exists"
      [] op = "save" -> IF cfg.persist THEN "set" ELSE "setex"

\* the store commands of the operations called: one each, in their order,
\* but none for the existence check of a header that is absent
CmdsOfOps(q) ==
    LET all == [i \in 1..Len(q.ops) |-> CmdOf(q.ops[i])]
    IN IF isNull(q.reqSid) THEN Tail(all) ELSE all

\* C17: a request calls its store operations in order: one existence check
\* of the header value, then one load (the sid existed) or the existence
\* checks of the generator (it did not), then at most one save.  Each sends
\* one command to the store (the check of an absent header sends none), an
\* operation is called only when the command before it has been answered,
\* and a request writes at most one record.
C17_StoreCallsInOrder ==
    \A r \in Requests :
       LET q == reqs[r]
       IN q.pc # "idle" =>
             /\ OpsInOrder(q)
             /\ q.cmds = CmdsOfOps(q)
             /\ Cardinality({i \in 1..Len(q.cmds) :
                                q.cmds[i] \in {"set", "setex"}}) <= 1
             /\ q.pc = "done" => q.cmd = NoCmd
             /\ q.pc # "done" =>
                   /\ q.cmd.name = Last(q.cmds)
                   /\ q.pc = (IF Len(q.ops) = 1 THEN "exists" ELSE Last(q.ops))

\* a request was answered that its sid exists, loaded it and saved it, and
\* another found no record, made a sid twice and saved it
C17_Witness ==
    \E p, r \in Requests :
       /\ reqs[p].pc = "done" /\ reqs[p].cmds = <<"exists", "get", CmdOf("save")>>
       /\ reqs[r].pc = "done" /\ NonEmptySid(reqs[r].reqSid)
       /\ reqs[r].cmds = <<"exists", "exists", "exists", CmdOf("save")>>

\* the store call of createSid for request r is answered in this step
CreateSidAnswered(r) == reqs[r].pc = "createSid" /\ reqs'[r] # reqs[r]

\* C18: createSid makes another sid exactly when the store answers that the
\* sid it made exists; when the store call fails it does not try again: the
\* sid it made goes to its caller with the error, and the request goes on
\* without a session.
C18_RetryOnlyOnCollision ==
    [][\A r \in Requests :
          CreateSidAnswered(r) =>
             LET again == reqs'[r].gens = reqs[r].gens + 1
                 failed == reqs'[r].failed
             IN /\ again <=> (~failed /\ reqs[r].sid.s \in DOMAIN store)
                /\ ~again => reqs'[r].gens = reqs[r].gens
                /\ failed =>
                      /\ reqs'[r].pc = "done" /\ reqs'[r].sid = reqs[r].sid
                      /\ reqs'[r].ops = reqs[r].ops
                      /\ reqs'[r].header = Undefined]_vars

\* a request made a second sid after a collision, and then the store call
\* about the second one failed
C18_Witness ==
    \E r \in Requests :
       /\ reqs[r].pc = "done" /\ reqs[r].failed
       /\ reqs[r].gens = 2 /\ Last(reqs[r].ops) = "createSid"
       /\ reqs[r].header = Undefined

\* C19: every record of the store holds data whose sid member is the key
\* of the record.
C19_RecordSidIsKey ==
    \A k \in DOMAIN store :
       GetMember(JSONparse(store[k].info), sidKey) = Str(k)

\* C20: a request saves under the sid it presented only when its load
\* delivered a record.
C20_SavesOnlyLoadedSid ==
    \A r \in Requests :
       (reqs[r].gens = 0 /\ reqs[r].pc # "idle" /\ Last(reqs[r].ops) = "save")
       => reqs[r].found # Undefined

\* the record of the sid request r presented was destroyed while r was on
\* its way to its save: the store said the sid existed, r made no sid of
\* its own, and in persistent mode without debug (no expiry, no destroyAll)
\* a record goes by destroy alone
DestroyedInFlight(r) ==
    /\ cfg.persist /\ ~cfg.debug
    /\ reqs[r].pc = "save" /\ reqs[r].gens = 0
    /\ reqs[r].reqSid.s \notin DOMAIN store

\* C21: once destroy(sid) has called back the record of sid stays away: a
\* request that presented sid and was between its existence check and its
\* save when destroy ran does not create the record again.
C21_DestroyedStaysAbsent ==
    [][\A r \in Requests :
          (DestroyedInFlight(r) /\ reqs'[r] # reqs[r])
          => reqs[r].reqSid.s \notin DOMAIN store']_vars

\* C22: when every store call is answered, every request handed to
\* sessionManager calls next() in the end.
C22_RequestsComplete ==
    \A r \in Requests : (reqs[r].pc # "idle") ~> (reqs[r].pc = "done")

====
